---- MODULE Spec2Model ----
\* The CloudFront VPC Origin resource (internal/service/cloudfront/vpc_origin.go):
\* its Create/Read/Update/Delete handlers, the status prober VPCOriginStatus and
\* the two waits waitVPCOriginDeployed / waitVPCOriginDeleted, which drive the
\* poll-until-state engine (retry.StateChangeConf.WaitForStateContext).  The
\* engine is a dependency whose code is not part of the sources; it is modelled
\* from section 4.2 of the specification.  Time is discrete: one tick of the
\* clock is the unit of the timeout, of the poll interval and of probe latency.
EXTENDS Integers, Sequences, FiniteSets, TLC

\* ---------------------------------------------------------------- bounds
MaxTimeout == 5       \* largest timeout a plan configures, in ticks
PollInterval == 2     \* the engine's fixed inter-poll delay, in ticks
MaxLatency == 1       \* longest time one GetVpcOrigin call takes, in ticks

\* ---------------------------------------------------------------- values
Nil == "nil"                      \* a nil error
NilObj == [type |-> "nil"]        \* a nil pointer / nil interface
NoState == [present |-> FALSE]    \* no resource in managed state
NoDiag == [action |-> "none"]     \* no error diagnostic
UnknownId == ""                   \* ValueString() of an unknown or null id
Ids == {"vo1"}                    \* identities the remote system assigns
ETags == {"e1", "e2"}             \* stands for every server-computed field
Cfgs == {"c1", "c2"}              \* vpc_origin_endpoint_config as submitted
Statuses == {"Deploying", "Deployed", "Other"}   \* Status is a free string
Timeouts == (MaxTimeout - 1)..MaxTimeout

\* awstypes.VpcOrigin with the ETag of the response that carried it
VpcOrigins(id) ==
    [id : {id}, status : Statuses, etag : ETags]

VARIABLES
    state,      \* managed state: NoState or [present, id, etag, status, cfg]
    opKind,     \* handler in progress or last run: none/Create/Read/Update/Delete
    opPc,       \* idle, calling (mutating call in flight), waiting, done
    calls,      \* mutating calls the running handler has issued
    ifMatch,    \* IfMatch of the running handler's mutating call, "" if none
    lastToken,  \* ETag of the last response a handler received, "" if none
    plan,       \* the handler's data/new model: [cfg, timeout]
    output,     \* output of the mutating call, NilObj when it failed
    callErr,    \* error of the mutating call, Nil on success
    conf,       \* the retry.StateChangeConf of the running wait
    wpc,        \* engine position: idle, ready, probing, sleeping, returned
    probes,     \* probes issued by the current wait
    delays,     \* inter-poll delays begun by the current wait
    seen,       \* what the remote answered to each completed probe
    lastObj,    \* result of the last completed probe, NilObj if none
    lastRefresh, \* (result, state, error) the prober returned last
    elapsed,    \* ticks since the wait recorded its deadline
    sleepLeft,  \* ticks left of the running inter-poll delay
    probeTicks, \* ticks the last issued probe has been in flight
    waitRet,    \* what the wait function returned: [out, err]
    cancelled,  \* the handler's context is done
    cancelAt,   \* value of elapsed when the context was cancelled
    diag,       \* error diagnostic of the handler: NoDiag or [action, id, cause]
    wrote,      \* the handler called response.State.Set
    crashed,    \* the handler dereferenced a nil pointer
    peer        \* a wait run at the same time by another handler task

opVars == <<opKind, opPc, calls, ifMatch, lastToken, plan, output, callErr>>
waitVars == <<conf, wpc, probes, delays, seen, lastObj, lastRefresh, elapsed,
              sleepLeft, probeTicks, waitRet>>
ctxVars == <<cancelled, cancelAt>>
resVars == <<diag, wrote, crashed>>
handlerVars == <<state, opVars, waitVars, ctxVars, resVars>>
vars == <<handlerVars, peer>>

\* ---------------------------------------------------------------- remote
\* What conn.GetVpcOrigin can answer for a key.  No resource has the empty
\* identity, so a read keyed by it finds nothing or fails.
GetVpcOrigin(id) ==
    LET failures == {[kind |-> "EntityNotFound"],
                     [kind |-> "Error", class |-> "Transient"],
                     [kind |-> "Error", class |-> "Permanent"]}
    IN IF id = UnknownId
       THEN failures
       ELSE failures \cup {[kind |-> "NilOutput"]}
            \cup {[kind |-> "Output", obj |-> o] : o \in VpcOrigins(id)}

\* how a completed probe is recorded in seen
Answer(resp) ==
    CASE resp.kind = "Output" -> resp.obj.status
      [] resp.kind = "Error" -> resp.class
      [] OTHER -> resp.kind

\* ---------------------------------------------------------------- prober
VPCOriginStatusNotFoundAsError(resp) ==
    CASE resp.kind \in {"EntityNotFound", "Error"} ->
            [res |-> NilObj, state |-> "",
             err |-> IF resp.kind = "Error" THEN resp.class ELSE "Permanent"]
      [] resp.kind = "NilOutput" -> [res |-> NilObj, state |-> "", err |-> Nil]
      [] OTHER -> [res |-> [type |-> "GetVpcOriginOutput", obj |-> resp.obj],
                   state |-> resp.obj.status, err |-> Nil]

VPCOriginStatusSwallowsErrors(resp) ==
    CASE resp.kind \in {"EntityNotFound", "Error", "NilOutput"} ->
            [res |-> NilObj, state |-> "", err |-> Nil]
      [] OTHER -> [res |-> [type |-> "GetVpcOriginOutput", obj |-> resp.obj],
                   state |-> resp.obj.status, err |-> Nil]

\* The refresh function: one GetVpcOrigin answer to (result, state, error).
VPCOriginStatus(resp) ==
    CASE resp.kind = "EntityNotFound" -> [res |-> NilObj, state |-> "", err |-> Nil]
      [] resp.kind = "Error" -> [res |-> NilObj, state |-> "", err |-> resp.class]
      [] resp.kind = "NilOutput" -> [res |-> NilObj, state |-> "", err |-> Nil]
      [] OTHER -> [res |-> [type |-> "GetVpcOriginOutput", obj |-> resp.obj],
                   state |-> resp.obj.status, err |-> Nil]

NoRefresh == [res |-> NilObj, state |-> "", err |-> Nil]

\* ---------------------------------------------------------------- waits
NoConf == [Pending |-> {}, Target |-> {}, Refresh |-> UnknownId, Timeout |-> 0]

waitVPCOriginDeployedSwapped(id, timeout) ==
    [Pending |-> {"Deployed"}, Target |-> {"Deploying"},
     Refresh |-> id, Timeout |-> timeout]

waitVPCOriginDeployedNoTarget(id, timeout) ==
    [Pending |-> {"Deploying"}, Target |-> {},
     Refresh |-> id, Timeout |-> timeout]

waitVPCOriginDeployedLongTimeout(id, timeout) ==
    [Pending |-> {"Deploying"}, Target |-> {"Deployed"},
     Refresh |-> id, Timeout |-> timeout + PollInterval]

\* the StateChangeConf built by waitVPCOriginDeployed
waitVPCOriginDeployed(id, timeout) ==
    [Pending |-> {"Deploying"}, Target |-> {"Deployed"},
     Refresh |-> id, Timeout |-> timeout]

waitVPCOriginDeletedDeployedPending(id, timeout) ==
    [Pending |-> {"Deploying", "Deployed"}, Target |-> {},
     Refresh |-> id, Timeout |-> timeout]

waitVPCOriginDeletedTargetDeploying(id, timeout) ==
    [Pending |-> {}, Target |-> {"Deploying"},
     Refresh |-> id, Timeout |-> timeout]

\* the StateChangeConf built by waitVPCOriginDeleted
waitVPCOriginDeleted(id, timeout) ==
    [Pending |-> {"Deploying"}, Target |-> {},
     Refresh |-> id, Timeout |-> timeout]

\* What waitVPCOriginDeployed returns for the engine's (outputRaw, err): the
\* type assertion to *awstypes.VpcOrigin decides the object.
returnVPCOriginDeployed(outputRaw, err) ==
    [out |-> IF outputRaw.type = "VpcOrigin" THEN outputRaw ELSE NilObj,
     err |-> err]

\* the same for waitVPCOriginDeleted
returnVPCOriginDeleted(outputRaw, err) ==
    [out |-> IF outputRaw.type = "VpcOrigin" THEN outputRaw ELSE NilObj,
     err |-> err]

\* the context handed to WaitForStateContext and to GetVpcOrigin
ctxDoneBackground == FALSE

ctxDone == cancelled

\* ---------------------------------------------------------------- engine
\* What the engine does with one refresh result t under configuration c
\* (section 4.2, step 2): return (done) with an object and an error, or go on.
WaitForStateContext(c, t) ==
    CASE t.err # Nil ->
            IF t.err = "Permanent"
            THEN [done |-> TRUE, raw |-> NilObj, err |-> t.err]
            ELSE [done |-> FALSE, raw |-> NilObj, err |-> Nil]
      [] t.err = Nil /\ t.res = NilObj ->
            IF c.Target = {}
            THEN [done |-> TRUE, raw |-> NilObj, err |-> Nil]
            ELSE [done |-> TRUE, raw |-> NilObj,
                  err |-> "UnexpectedDisappearance"]
      [] OTHER ->
            IF t.state \in c.Target
            THEN [done |-> TRUE, raw |-> t.res, err |-> Nil]
            ELSE IF t.state \in c.Pending
            THEN [done |-> FALSE, raw |-> t.res, err |-> Nil]
            ELSE [done |-> TRUE, raw |-> t.res, err |-> "UnexpectedState"]

Active == wpc \in {"ready", "probing", "sleeping"}

\* the engine returns and the wait function hands its result to the handler
Return(raw, err) ==
    /\ wpc' = "returned"
    /\ waitRet' = IF opKind = "Delete"
                  THEN returnVPCOriginDeleted(raw, err)
                  ELSE returnVPCOriginDeployed(raw, err)

\* Step 2: the engine invokes the prober; the first probe is immediate, a
\* repeat follows a full delay and the deadline check of step 3.
ProbeStart ==
    /\ opPc = "waiting"
    /\ ~ctxDone
    /\ \/ wpc = "ready"
       \/ wpc = "sleeping" /\ sleepLeft = 0 /\ elapsed < conf.Timeout
    /\ wpc' = "probing"
    /\ probes' = probes + 1
    /\ probeTicks' = 0
    /\ UNCHANGED <<state, opVars, conf, delays, seen, lastObj, lastRefresh,
                   elapsed, sleepLeft, waitRet, ctxVars, resVars, peer>>

\* The remote answers the probe in flight and the engine acts on the answer.
ProbeComplete ==
    /\ opPc = "waiting"
    /\ wpc = "probing"
    /\ ~ctxDone
    /\ \E resp \in GetVpcOrigin(conf.Refresh) :
         LET t == VPCOriginStatus(resp)
             d == WaitForStateContext(conf, t)
         IN /\ seen' = Append(seen, Answer(resp))
            /\ lastObj' = t.res
            /\ lastRefresh' = t
            /\ IF d.done
               THEN /\ Return(d.raw, d.err)
                    /\ UNCHANGED <<delays, sleepLeft>>
               ELSE /\ wpc' = "sleeping"
                    /\ sleepLeft' = PollInterval
                    /\ delays' = delays + 1
                    /\ UNCHANGED waitRet
    /\ UNCHANGED <<state, opVars, conf, probes, elapsed, probeTicks,
                   ctxVars, resVars, peer>>

WaitTimeoutNever == FALSE /\ UNCHANGED vars

\* Step 3: the deadline has passed when the engine is about to repeat.
WaitTimeout ==
    /\ opPc = "waiting"
    /\ ~ctxDone
    /\ wpc = "sleeping" /\ sleepLeft = 0 /\ elapsed >= conf.Timeout
    /\ Return(NilObj, "Timeout")
    /\ UNCHANGED <<state, opVars, conf, probes, delays, seen, lastObj,
                   lastRefresh, elapsed, sleepLeft, probeTicks, ctxVars,
                   resVars, peer>>

\* The context is done: polling stops, a probe in flight is abandoned.
WaitCancel ==
    /\ opPc = "waiting"
    /\ ctxDone
    /\ Active
    /\ Return(NilObj, "Cancelled")
    /\ UNCHANGED <<state, opVars, conf, probes, delays, seen, lastObj,
                   lastRefresh, elapsed, sleepLeft, probeTicks, ctxVars,
                   resVars, peer>>

\* Time passes only while the wait is blocked: in the inter-poll delay or in
\* the network call of a probe.
Tick ==
    /\ opPc = "waiting"
    /\ ~ctxDone
    /\ \/ /\ wpc = "sleeping" /\ sleepLeft > 0
          /\ sleepLeft' = sleepLeft - 1
          /\ UNCHANGED probeTicks
       \/ /\ wpc = "probing" /\ probeTicks < MaxLatency
          /\ probeTicks' = probeTicks + 1
          /\ UNCHANGED sleepLeft
    /\ elapsed' = elapsed + 1
    /\ UNCHANGED <<state, opVars, conf, wpc, probes, delays, seen, lastObj,
                   lastRefresh, waitRet, ctxVars, resVars, peer>>

\* The caller cancels the handler's context while the wait is polling.
Cancel ==
    /\ opPc = "waiting"
    /\ Active
    /\ ~cancelled
    /\ cancelled' = TRUE
    /\ cancelAt' = elapsed
    /\ UNCHANGED <<state, opVars, waitVars, resVars, peer>>

\* ---------------------------------------------------------------- handlers
NoPlan == [id |-> UnknownId, cfg |-> "c1", timeout |-> 0]

\* the handler returns: its locals, its context and the wait's go out of scope
Leave ==
    /\ opPc' = "done"
    /\ calls' = 0
    /\ ifMatch' = ""
    /\ plan' = NoPlan
    /\ output' = NilObj
    /\ callErr' = Nil
    /\ conf' = NoConf
    /\ wpc' = "idle"
    /\ probes' = 0
    /\ delays' = 0
    /\ seen' = <<>>
    /\ lastObj' = NilObj
    /\ lastRefresh' = NoRefresh
    /\ elapsed' = 0
    /\ sleepLeft' = 0
    /\ probeTicks' = 0
    /\ waitRet' = [out |-> NilObj, err |-> Nil]
    /\ cancelled' = FALSE
    /\ cancelAt' = 0
    /\ UNCHANGED <<opKind, lastToken, peer>>

\* A handler is entered: it reads its plan and state, builds the input of its
\* mutating call (IfMatch from the ETag in state) and issues the call.
Invoke(kind, p, token) ==
    /\ opPc \in {"idle", "done"}
    /\ ~crashed
    /\ opKind' = kind
    /\ opPc' = "calling"
    /\ calls' = 1
    /\ ifMatch' = token
    /\ plan' = p
    /\ diag' = NoDiag
    /\ wrote' = FALSE
    /\ crashed' = FALSE
    /\ UNCHANGED <<state, lastToken, output, callErr, waitVars, ctxVars,
                   peer>>

\* the mutating call returns (out, err) and the handler enters the wait built
\* by c; the ETag of a response is the last token the handler received
Begin(kind, out, err, c) ==
    /\ opKind = kind
    /\ opPc = "calling"
    /\ opPc' = "waiting"
    /\ output' = out
    /\ callErr' = err
    /\ lastToken' = IF out = NilObj THEN lastToken ELSE out.obj.etag
    /\ conf' = c
    /\ wpc' = "ready"
    /\ probes' = 0
    /\ delays' = 0
    /\ seen' = <<>>
    /\ lastObj' = NilObj
    /\ lastRefresh' = NoRefresh
    /\ elapsed' = 0
    /\ sleepLeft' = 0
    /\ probeTicks' = 0
    /\ waitRet' = [out |-> NilObj, err |-> Nil]
    /\ cancelled' = FALSE
    /\ cancelAt' = 0
    /\ UNCHANGED <<state, opKind, calls, ifMatch, plan, resVars, peer>>

\* what a mutating call can return: an output carrying the object, or an error
CallResults(ids) ==
    {[out |-> [type |-> "Output", obj |-> o], err |-> Nil] :
        o \in UNION {VpcOrigins(i) : i \in ids}}
    \cup {[out |-> NilObj, err |-> "CallError"]}

\* Create is entered with a plan whose id is unknown and sends CreateVpcOrigin.
CreateRequest ==
    /\ state = NoState
    /\ \E cfg \in Cfgs, timeout \in Timeouts :
         Invoke("Create", [id |-> UnknownId, cfg |-> cfg, timeout |-> timeout],
                "")

UpdateRequestPlanToken ==
    /\ state # NoState
    /\ \E cfg \in Cfgs, timeout \in Timeouts :
         Invoke("Update", [id |-> state.id, cfg |-> cfg, timeout |-> timeout],
                "")

\* Update is entered and sends UpdateVpcOrigin with IfMatch = old.ETag.
UpdateRequest ==
    /\ state # NoState
    /\ \E cfg \in Cfgs, timeout \in Timeouts :
         Invoke("Update", [id |-> state.id, cfg |-> cfg, timeout |-> timeout],
                state.etag)

\* Delete is entered and sends DeleteVpcOrigin with IfMatch = data.ETag.
DeleteRequest ==
    /\ state # NoState
    /\ \E timeout \in Timeouts :
         Invoke("Delete", [id |-> state.id, cfg |-> state.cfg,
                           timeout |-> timeout], state.etag)

\* Create up to the wait: CreateVpcOrigin returns, then waitVPCOriginDeployed
\* keyed by the plan's id, which is unknown while the resource is being created.
CreateCall ==
    \E r \in CallResults(Ids) :
        Begin("Create", r.out, r.err,
              waitVPCOriginDeployed(plan.id, plan.timeout))

\* Update up to the wait: UpdateVpcOrigin returns, then waitVPCOriginDeployed
\* keyed by the id in state.
UpdateCall ==
    \E r \in CallResults({plan.id}) :
        Begin("Update", r.out, r.err,
              waitVPCOriginDeployed(state.id, plan.timeout))

DeleteCallGated ==
    \/ Begin("Delete", NilObj, Nil,
             waitVPCOriginDeleted(state.id, plan.timeout))
    \/ /\ opKind = "Delete"
       /\ opPc = "calling"
       /\ Leave
       /\ diag' = [action |-> "delete", id |-> plan.id, cause |-> "CallError"]
       /\ UNCHANGED <<state, wrote, crashed>>

\* Delete up to the wait: DeleteVpcOrigin returns, then waitVPCOriginDeleted.
DeleteCall ==
    \E err \in {Nil, "CallError"} :
        Begin("Delete", NilObj, err,
              waitVPCOriginDeleted(state.id, plan.timeout))

Finished(kind) == opKind = kind /\ opPc = "waiting" /\ wpc = "returned"

WaitError(action) ==
    [action |-> action, id |-> plan.id, cause |-> waitRet.err]

\* the attributes Create and Update copy from the mutating call's output
FromOutput(st, o) ==
    [st EXCEPT !.status = o.status, !.etag = o.etag]

\* Create after the wait
CreateDone ==
    /\ Finished("Create")
    /\ Leave
    /\ IF waitRet.err # Nil
       THEN /\ diag' = WaitError("create")
            /\ UNCHANGED <<state, wrote, crashed>>
       ELSE IF output = NilObj
       THEN /\ crashed' = TRUE
            /\ UNCHANGED <<state, wrote, diag>>
       ELSE /\ state' = FromOutput([present |-> TRUE, id |-> output.obj.id,
                                    etag |-> "", status |-> "",
                                    cfg |-> plan.cfg], output.obj)
            /\ wrote' = TRUE
            /\ UNCHANGED <<diag, crashed>>

\* Update after the wait
UpdateDone ==
    /\ Finished("Update")
    /\ Leave
    /\ IF waitRet.err # Nil
       THEN /\ diag' = WaitError("update")
            /\ UNCHANGED <<state, wrote, crashed>>
       ELSE IF output = NilObj
       THEN /\ crashed' = TRUE
            /\ UNCHANGED <<state, wrote, diag>>
       ELSE /\ state' = FromOutput([state EXCEPT !.cfg = plan.cfg], output.obj)
            /\ wrote' = TRUE
            /\ UNCHANGED <<diag, crashed>>

\* Delete after the wait; without an error diagnostic the framework drops the
\* resource from managed state.
DeleteDone ==
    /\ Finished("Delete")
    /\ Leave
    /\ IF waitRet.err # Nil
       THEN /\ diag' = WaitError("delete")
            /\ UNCHANGED state
       ELSE /\ state' = NoState
            /\ UNCHANGED diag
    /\ UNCHANGED <<wrote, crashed>>

\* ---------------------------------------------------------------- two waits
\* Another handler task waits for a different resource at the same time.  Its
\* wait is the same code run on its own StateChangeConf and its own locals.
PeerId == "vo2"

NoPeer == [pc |-> "idle", conf |-> NoConf, probes |-> 0, answers |-> 0,
           elapsed |-> 0, sleepLeft |-> 0, probeTicks |-> 0, err |-> Nil]

PeerStartSharedConf ==
    /\ peer.pc = "idle"
    /\ \E timeout \in Timeouts :
         /\ peer' = [NoPeer EXCEPT !.pc = "ready",
                        !.conf = waitVPCOriginDeployed(PeerId, timeout)]
         /\ conf' = waitVPCOriginDeployed(PeerId, timeout)
    /\ UNCHANGED <<state, opVars, wpc, probes, delays, seen, lastObj,
                   lastRefresh, elapsed, sleepLeft, probeTicks, waitRet,
                   ctxVars, resVars>>

\* the other task calls waitVPCOriginDeployed for its resource
PeerStart ==
    /\ peer.pc = "idle"
    /\ \E timeout \in Timeouts :
         peer' = [NoPeer EXCEPT !.pc = "ready",
                    !.conf = waitVPCOriginDeployed(PeerId, timeout)]
    /\ UNCHANGED handlerVars

PeerProbeStart ==
    /\ \/ peer.pc = "ready"
       \/ /\ peer.pc = "sleeping" /\ peer.sleepLeft = 0
          /\ peer.elapsed < peer.conf.Timeout
    /\ peer' = [peer EXCEPT !.pc = "probing", !.probes = @ + 1,
                            !.probeTicks = 0]
    /\ UNCHANGED handlerVars

PeerProbeComplete ==
    /\ peer.pc = "probing"
    /\ \E resp \in GetVpcOrigin(peer.conf.Refresh) :
         LET d == WaitForStateContext(peer.conf, VPCOriginStatus(resp))
             p == [peer EXCEPT !.answers = @ + 1]
         IN peer' = IF d.done
                    THEN [p EXCEPT !.pc = "returned",
                            !.err = returnVPCOriginDeployed(d.raw, d.err).err]
                    ELSE [p EXCEPT !.pc = "sleeping",
                            !.sleepLeft = PollInterval]
    /\ UNCHANGED handlerVars

PeerTimeout ==
    /\ peer.pc = "sleeping" /\ peer.sleepLeft = 0
    /\ peer.elapsed >= peer.conf.Timeout
    /\ peer' = [peer EXCEPT !.pc = "returned",
                   !.err = returnVPCOriginDeployed(NilObj, "Timeout").err]
    /\ UNCHANGED handlerVars

PeerTick ==
    /\ \/ /\ peer.pc = "sleeping" /\ peer.sleepLeft > 0
          /\ peer' = [peer EXCEPT !.sleepLeft = @ - 1, !.elapsed = @ + 1]
       \/ /\ peer.pc = "probing" /\ peer.probeTicks < MaxLatency
          /\ peer' = [peer EXCEPT !.probeTicks = @ + 1, !.elapsed = @ + 1]
    /\ UNCHANGED handlerVars

\* the other task's wait function has returned to its handler
PeerLeave ==
    /\ peer.pc = "returned"
    /\ peer' = NoPeer
    /\ UNCHANGED handlerVars

\* tfresource.NotFound(err) for the EntityNotFound error of GetVpcOrigin: the
\* classifier is not part of the sources, so either answer is possible
NotFound == BOOLEAN

\* Read: one GetVpcOrigin keyed by the id in state, then the state is removed,
\* left alone with an error, or refreshed from the output.
Read ==
    /\ opPc \in {"idle", "done"}
    /\ ~crashed
    /\ state # NoState
    /\ opKind' = "Read"
    /\ opPc' = "done"
    /\ \E resp \in GetVpcOrigin(state.id), recognised \in NotFound :
         CASE resp.kind = "EntityNotFound" /\ recognised ->
                /\ state' = NoState
                /\ diag' = NoDiag
                /\ wrote' = FALSE
                /\ UNCHANGED <<crashed, lastToken>>
           [] resp.kind = "EntityNotFound" /\ ~recognised ->
                /\ diag' = [action |-> "read", id |-> state.id,
                            cause |-> resp.kind]
                /\ wrote' = FALSE
                /\ UNCHANGED <<state, crashed, lastToken>>
           [] resp.kind = "Error" ->
                /\ diag' = [action |-> "read", id |-> state.id,
                            cause |-> resp.class]
                /\ wrote' = FALSE
                /\ UNCHANGED <<state, crashed, lastToken>>
           [] resp.kind = "NilOutput" ->
                /\ crashed' = TRUE
                /\ diag' = NoDiag
                /\ wrote' = FALSE
                /\ UNCHANGED <<state, lastToken>>
           [] OTHER ->
                /\ state' = FromOutput([state EXCEPT !.id = resp.obj.id],
                                       resp.obj)
                /\ lastToken' = resp.obj.etag
                /\ diag' = NoDiag
                /\ wrote' = TRUE
                /\ UNCHANGED crashed
    /\ UNCHANGED <<calls, ifMatch, plan, output, callErr, waitVars, ctxVars,
                   peer>>

\* ---------------------------------------------------------------- behaviours
\* Managed state is what the framework hands the provider: nothing, or a
\* resource recorded earlier.
Init ==
    /\ state \in {NoState}
         \cup {[present |-> TRUE, id |-> "vo1", etag |-> e,
                status |-> "Deployed", cfg |-> "c1"] : e \in ETags}
    /\ opKind = "none"
    /\ opPc = "idle"
    /\ calls = 0
    /\ ifMatch = ""
    /\ lastToken = IF state = NoState THEN "" ELSE state.etag
    /\ plan = [id |-> UnknownId, cfg |-> "c1", timeout |-> 0]
    /\ output = NilObj
    /\ callErr = Nil
    /\ conf = NoConf
    /\ wpc = "idle"
    /\ probes = 0
    /\ delays = 0
    /\ seen = <<>>
    /\ lastObj = NilObj
    /\ lastRefresh = NoRefresh
    /\ elapsed = 0
    /\ sleepLeft = 0
    /\ probeTicks = 0
    /\ waitRet = [out |-> NilObj, err |-> Nil]
    /\ cancelled = FALSE
    /\ cancelAt = 0
    /\ diag = NoDiag
    /\ wrote = FALSE
    /\ crashed = FALSE
    /\ peer = NoPeer

Next ==
    \/ CreateRequest
    \/ UpdateRequest
    \/ DeleteRequest
    \/ Read
    \/ CreateCall
    \/ UpdateCall
    \/ DeleteCall
    \/ ProbeStart
    \/ ProbeComplete
    \/ WaitTimeout
    \/ WaitCancel
    \/ Tick
    \/ Cancel
    \/ CreateDone
    \/ UpdateDone
    \/ DeleteDone

Spec == Init /\ [][Next]_vars

\* A Delete handler and another task's wait running side by side.
PeerNext ==
    \/ DeleteRequest
    \/ DeleteCall
    \/ ProbeStart
    \/ ProbeComplete
    \/ WaitTimeout
    \/ WaitCancel
    \/ Tick
    \/ Cancel
    \/ DeleteDone
    \/ PeerStart
    \/ PeerProbeStart
    \/ PeerProbeComplete
    \/ PeerTimeout
    \/ PeerTick
    \/ PeerLeave

PeerSpec == Init /\ [][PeerNext]_vars

\* The wait's task and the clock are scheduled fairly: the engine's steps, the
\* remote's answer to a probe in flight and the passing of time are not
\* postponed forever.  Handlers are entered, and contexts cancelled, at will.
FairSpec ==
    /\ Spec
    /\ WF_vars(ProbeStart)
    /\ WF_vars(ProbeComplete)
    /\ WF_vars(WaitTimeout)
    /\ WF_vars(WaitCancel)
    /\ WF_vars(Tick)

\* ---------------------------------------------------------------- properties
WaitReturned == opPc = "waiting" /\ wpc = "returned"
DeployedWait == opKind \in {"Create", "Update"}
DeletedWait == opKind = "Delete"
Last(q) == q[Len(q)]
AllBefore(q, n, v) == \A i \in 1..(n - 1) : q[i] = v

TypeOK ==
    /\ opKind \in {"none", "Create", "Read", "Update", "Delete"}
    /\ opPc \in {"idle", "calling", "waiting", "done"}
    /\ calls \in 0..1
    /\ ifMatch \in ETags \cup {""}
    /\ lastToken \in ETags \cup {""}
    /\ wpc \in {"idle", "ready", "probing", "sleeping", "returned"}
    /\ probes \in Nat /\ delays \in Nat /\ elapsed \in Nat
    /\ sleepLeft \in 0..PollInterval
    /\ probeTicks \in 0..MaxLatency
    /\ cancelled \in BOOLEAN /\ wrote \in BOOLEAN /\ crashed \in BOOLEAN


\* C1: in a waitVPCOriginDeployed, N pending answers followed by a target
\* answer end the wait in success after exactly N+1 probes and N delays.
C1_PendingThenTarget ==
    (DeployedWait /\ Len(seen) > 0 /\ Last(seen) = "Deployed"
        /\ AllBefore(seen, Len(seen), "Deploying"))
    => /\ wpc = "returned"
       /\ waitRet.err = Nil
       /\ probes = Len(seen)
       /\ delays = Len(seen) - 1

C1_Witness ==
    /\ WaitReturned /\ opKind = "Update" /\ waitRet.err = Nil
    /\ seen = <<"Deploying", "Deploying", "Deployed">>

C1_WitnessFirstProbe ==
    /\ WaitReturned /\ opKind = "Update" /\ waitRet.err = Nil
    /\ seen = <<"Deployed">> /\ delays = 0

\* C2: in a waitVPCOriginDeleted, the probe that finds the identity gone ends
\* the wait in success with no error and a nil object, at once.
C2_DeleteWaitNotFound ==
    (DeletedWait /\ Len(seen) > 0 /\ Last(seen) = "EntityNotFound")
    => /\ wpc = "returned"
       /\ waitRet.err = Nil
       /\ waitRet.out = NilObj
       /\ probes = Len(seen)

C2_Witness ==
    /\ WaitReturned /\ DeletedWait /\ waitRet.err = Nil
    /\ seen = <<"Deploying", "EntityNotFound">>

\* C3: in a wait with a target, the probe that finds the identity gone ends
\* the wait with an UnexpectedDisappearance error and is its last probe.
C3_Disappearance ==
    (DeployedWait /\ \E i \in 1..Len(seen) : seen[i] = "EntityNotFound")
    => /\ wpc = "returned"
       /\ waitRet.err = "UnexpectedDisappearance"
       /\ Last(seen) = "EntityNotFound"
       /\ probes = Len(seen)

C3_Witness ==
    /\ WaitReturned /\ opKind = "Update"
    /\ waitRet.err = "UnexpectedDisappearance"
    /\ seen = <<"Deploying", "EntityNotFound">>

\* C4: a status that is neither pending nor target for the wait ends it with
\* an UnexpectedState error and is its last probe.
C4_UnexpectedState ==
    LET neither == IF DeletedWait THEN {"Deployed", "Other"} ELSE {"Other"}
    IN (opKind # "none" /\ \E i \in 1..Len(seen) : seen[i] \in neither)
       => /\ wpc = "returned"
          /\ waitRet.err = "UnexpectedState"
          /\ Last(seen) \in neither
          /\ probes = Len(seen)

C4_Witness ==
    /\ WaitReturned /\ DeletedWait /\ waitRet.err = "UnexpectedState"
    /\ seen = <<"Deploying", "Deployed">>

C6_Cancellation ==
    [][/\ (cancelled /\ opPc = "waiting" /\ wpc \in {"ready", "probing", "sleeping"})
          => /\ wpc' = "returned"
             /\ waitRet'.err = "Cancelled"
             /\ waitRet'.err # "Timeout"
             /\ elapsed' - cancelAt < PollInterval
             /\ probes' = probes
       /\ wpc = "returned" => wpc' # "probing"]_vars

C6_Witness ==
    /\ WaitReturned /\ cancelled /\ waitRet.err = "Cancelled"
    /\ Len(seen) >= 1 /\ cancelAt > 0

\* C7: a permanent probe error ends the wait with that error and is its last
\* probe; a transient probe error is never returned, and when a target answer
\* follows it the wait succeeds.
C7_ProbeErrors ==
    /\ (opKind # "none" /\ \E i \in 1..Len(seen) : seen[i] = "Permanent")
       => /\ wpc = "returned"
          /\ waitRet.err = "Permanent"
          /\ Last(seen) = "Permanent"
          /\ probes = Len(seen)
    /\ waitRet.err # "Transient"
    /\ (Len(seen) > 0 /\ Last(seen) = "Transient")
       => (wpc = "returned" => waitRet.err \in {"Timeout", "Cancelled"})
    /\ (DeployedWait /\ Len(seen) >= 2 /\ seen[Len(seen) - 1] = "Transient"
          /\ Last(seen) = "Deployed")
       => (wpc = "returned" /\ waitRet.err = Nil)

C7_Witness ==
    /\ WaitReturned /\ opKind = "Update" /\ waitRet.err = Nil
    /\ seen = <<"Transient", "Deployed">>

C7_WitnessPermanent ==
    /\ WaitReturned /\ waitRet.err = "Permanent"
    /\ seen = <<"Deploying", "Permanent">>

\* C8: a waitVPCOriginDeployed that succeeds returns the object of its final
\* probe, never nil.
C8_ReturnsFinalObject ==
    (WaitReturned /\ DeployedWait /\ waitRet.err = Nil)
    => /\ waitRet.out # NilObj
       /\ waitRet.out.obj = lastObj.obj

\* C9: every probe is keyed by the resource's assigned identity: the one in
\* the create call's response for Create, the one in managed state for Update
\* and Delete; never the empty identity.
C9_ProbeIdentity ==
    (opPc = "waiting" /\ probes > 0)
    => /\ conf.Refresh # UnknownId
       /\ (opKind = "Create" /\ output # NilObj) => conf.Refresh = output.obj.id
       /\ opKind \in {"Update", "Delete"} => conf.Refresh = state.id

\* C10: the state written by Create or Update after a successful wait has the
\* status and concurrency token of the wait's final probe, so its status is
\* the target status, and keeps the submitted configuration.
C10_StateFromFinalProbe ==
    [][(opKind \in {"Create", "Update"} /\ wrote' /\ ~wrote)
       => /\ state'.status = "Deployed"
          /\ state'.status = lastObj.obj.status
          /\ state'.etag = lastObj.obj.etag
          /\ state'.cfg = plan.cfg]_vars

\* C11: a handler whose mutating call returned an error ends with an error
\* diagnostic and without writing or removing managed state, whatever its
\* wait observed.
C11_CallErrorReported ==
    [][(opPc = "waiting" /\ opPc' = "done" /\ callErr # Nil)
       => /\ diag' # NoDiag
          /\ ~wrote'
          /\ state' = state]_vars

\* C12: the wait starts when the mutating call returns, with either outcome,
\* and not before; a handler issues exactly one mutating call.
C12_WaitAfterCall ==
    [][/\ opPc' = "calling" => (wpc' = "idle" /\ probes' = 0 /\ calls' = 1)
       /\ opPc' = "waiting" => calls' = 1
       /\ (opPc = "calling" /\ opPc' # "calling")
          => (opPc' = "waiting" /\ wpc' = "ready")
       /\ (opPc # "waiting" /\ opPc' = "waiting") => opPc = "calling"]_vars

C12_Witness ==
    /\ opPc = "waiting" /\ callErr # Nil /\ probes > 0 /\ calls = 1

\* C13: a handler whose wait failed reports an error naming its action, the
\* resource's identity and the wait's error, and leaves managed state as it
\* was.
C13_WaitFailureReported ==
    [][(opPc = "waiting" /\ opPc' = "done" /\ waitRet.err # Nil)
       => LET action == CASE opKind = "Create" -> "create"
                          [] opKind = "Update" -> "update"
                          [] OTHER -> "delete"
              identity == IF opKind # "Create" THEN state.id
                          ELSE IF output # NilObj THEN output.obj.id
                          ELSE UnknownId
          IN /\ diag' = [action |-> action, id |-> identity,
                         cause |-> waitRet.err]
             /\ state' = state
             /\ ~wrote']_vars

\* C15 as stated: Update and Delete send the ETag in managed state as IfMatch,
\* a handler that writes state stores the ETag of its own call's response, and
\* IfMatch is never older than the last ETag a handler received.
C15_TokenNeverOlder ==
    [][/\ (opPc' = "calling" /\ opKind' \in {"Update", "Delete"})
          => (ifMatch' = state'.etag /\ ifMatch' = lastToken')
       /\ (wrote' /\ ~wrote) => state'.etag = lastToken']_vars

\* C15 amended: Update and Delete send the ETag in managed state as IfMatch,
\* and a handler that writes state stores the ETag of its own call's response.
C15_TokenFromState ==
    [][/\ (opPc' = "calling" /\ opKind' \in {"Update", "Delete"})
          => ifMatch' = state'.etag
       /\ (wrote' /\ ~wrote) => state'.etag = lastToken']_vars

C15_Witness ==
    /\ opPc = "calling" /\ opKind = "Delete" /\ state.status = "Deploying"
    /\ ifMatch = state.etag /\ lastToken # state.etag

\* C16: Delete ends without an error only after a probe found the identity
\* gone, Create and Update write state only after a probe answered Deployed,
\* and no handler succeeds when the last answer was Deploying.
C16_SuccessNeedsObservation ==
    [][(opPc = "waiting" /\ opPc' = "done")
       => /\ (opKind = "Delete" /\ diag' = NoDiag)
             => (Len(seen) > 0
                 /\ Last(seen) \in {"EntityNotFound", "NilOutput"})
          /\ (opKind \in {"Create", "Update"} /\ wrote')
             => (Len(seen) > 0 /\ Last(seen) = "Deployed")
          /\ (diag' = NoDiag /\ ~crashed')
             => (Len(seen) > 0 /\ Last(seen) # "Deploying")]_vars

C16_Witness ==
    /\ opKind = "Delete" /\ opPc = "done" /\ diag = NoDiag /\ state = NoState

C16_WitnessWrite ==
    /\ opKind = "Update" /\ opPc = "done" /\ wrote /\ diag = NoDiag

\* C18: the prober answers each probe from one remote read: the not-found
\* signal for EntityNotFound or a missing output, the error itself for any
\* other failure, the output and its status otherwise; a probe changes
\* neither managed state nor the handler's data.
C18_ProberContract ==
    [][Len(seen') = Len(seen) + 1
       => /\ probes' = Len(seen')
          /\ CASE Last(seen') \in {"EntityNotFound", "NilOutput"} ->
                    lastRefresh' = [res |-> NilObj, state |-> "", err |-> Nil]
               [] Last(seen') \in {"Transient", "Permanent"} ->
                    lastRefresh' = [res |-> NilObj, state |-> "",
                                    err |-> Last(seen')]
               [] OTHER ->
                    /\ lastRefresh'.res.type = "GetVpcOriginOutput"
                    /\ lastRefresh'.res.obj.id = conf.Refresh
                    /\ lastRefresh'.res.obj.status = Last(seen')
                    /\ lastRefresh'.state = Last(seen')
                    /\ lastRefresh'.err = Nil
          /\ UNCHANGED <<state, opVars, ctxVars, resVars>>]_vars

C18_Witness ==
    /\ Len(seen) = 2 /\ seen[1] = "Transient" /\ seen[2] = "EntityNotFound"
    /\ lastRefresh = NoRefresh

C18_WitnessObject ==
    /\ Len(seen) = 1 /\ lastRefresh.state = "Deployed"

\* C19: Create and Update never end in a crash: after a successful wait
\* neither reads a field of a missing output or the message of a nil error.
C19_NoCrash ==
    crashed => opKind \notin {"Create", "Update"}

\* C17: under fair scheduling every running wait returns, with exactly one of
\* success, timeout, cancellation or another error.
C17_WaitTerminates ==
    (opPc = "waiting" /\ wpc # "returned")
    ~> (opPc = "waiting" /\ wpc = "returned"
        /\ waitRet.err \in {Nil, "Timeout", "Cancelled", "UnexpectedState",
                             "UnexpectedDisappearance", "Permanent"})

C17_Witness ==
    /\ WaitReturned /\ waitRet.err = "Timeout" /\ Len(seen) >= 3
    /\ \E i \in 1..Len(seen) : seen[i] = "Transient"

\* C20, the parts the sources decide: a Read whose remote read fails for a
\* reason other than not-found reports an error and leaves managed state as it
\* was, and a Read that writes state stores the identity, status and ETag of
\* its own response.
C20_ReadErrorAndRefresh ==
    [][(opPc \in {"idle", "done"} /\ opPc' = "done" /\ opKind' = "Read")
       => /\ diag' # NoDiag => (state' = state /\ ~wrote')
          /\ wrote' => (diag' = NoDiag /\ state'.id = state.id
                        /\ state'.etag = lastToken')]_vars

\* C14: a wait polls strictly in sequence: a probe starts only when no probe
\* of that wait is in flight, so at most one is outstanding, also when the wait
\* ends by timeout or cancellation.  Two waits for different resources share
\* no mutable state: a step of one leaves the other's variables alone, and the
\* outcome of a wait follows from its own configuration, its own last answer
\* and its own context, whatever the other wait did in between.
C14_SequentialIndependent ==
    [][/\ probes' - Len(seen') \in {0, 1}
       /\ probes' = probes + 1 =>
             (wpc # "probing" /\ probes = Len(seen) /\ wpc' = "probing")
       /\ peer'.probes - peer'.answers \in {0, 1}
       /\ peer'.probes = peer.probes + 1 =>
             /\ peer.pc # "probing" /\ peer.probes = peer.answers
             /\ peer'.pc = "probing"
       /\ peer' # peer => handlerVars' = handlerVars
       /\ handlerVars' # handlerVars => peer' = peer
       /\ (wpc' = "returned" /\ wpc # "returned") =>
             waitRet'.err =
                IF ctxDone THEN "Cancelled"
                ELSE IF wpc = "probing"
                     THEN returnVPCOriginDeleted(
                            NilObj,
                            WaitForStateContext(conf, lastRefresh').err).err
                     ELSE "Timeout"]_vars

\* both waits are under way, each with answers of its own, and the handler's
\* wait has returned while the other one has a probe in flight
C14_Witness ==
    /\ WaitReturned /\ Len(seen) >= 2
    /\ peer.pc = "probing" /\ peer.answers >= 1
    /\ peer.conf.Refresh # conf.Refresh

\* a wait ended by cancellation with its probe still in flight, next to a
\* running wait of the other task
C14_WitnessCancelled ==
    /\ WaitReturned /\ waitRet.err = "Cancelled"
    /\ probes = Len(seen) + 1
    /\ peer.pc = "sleeping"

====
